---- MODULE Spec2Model ----
(***************************************************************************)
(* Model of scene/octree.py: class Octree, a uniform grid index over 3D    *)
(* point primitives (positions, scales, rotations) with a cell membership  *)
(* index `cells` and a reverse index `point_cells`.                        *)
(*                                                                         *)
(* Numbers.  Positions and min_cell_size given to the program are small    *)
(* integers (exactly representable floats).  Every derived float of the    *)
(* program (center, global_min, global_max, cell_size, default_extent and  *)
(* the p_min / p_max of a point) is a multiple of 1/Den for these inputs,  *)
(* and is held here as the integer  value * Den, so that the divisions and *)
(* floors of the code are computed exactly.  Python handles are 0-based;   *)
(* the arrays are TLA+ sequences, row h of the program is element h + 1.   *)
(***************************************************************************)
EXTENDS Integers, Sequences, FiniteSets, TLC

VARIABLES points, scales, rotations, min_cell_size,
          global_min, global_max, depth, n_cells, cell_size, default_extent,
          cells, point_cells, last

grid == <<min_cell_size, global_min, global_max, depth, n_cells, cell_size,
          default_extent>>
store == <<points, scales, rotations>>
index_maps == <<cells, point_cells>>
vars == <<points, scales, rotations, min_cell_size, global_min, global_max,
          depth, n_cells, cell_size, default_extent, cells, point_cells, last>>

(***************************************************************************)
(* Bounds of the model.                                                    *)
(***************************************************************************)
\* largest number of rows the position array may grow to
MaxPoints == 3
\* a position array of the wrong size (2 components)
BadPoint == <<0, 0>>
Scale1 == <<1, 1, 1>>
BadScale == <<1, 1>>
Identity == << <<1, 0, 0>>, <<0, 1, 0>>, <<0, 0, 1>> >>
\* a rotation array of the wrong size (2 x 2)
BadRotation == << <<1, 0>>, <<0, 1>> >>

\* the inputs the constructor is given in Spec: coincident primitives (a
\* cube of edge 0, cell_size 0, one cell), an extent of 3 with
\* min_cell_size 2 (depth computed as 0: one cell of edge 3), and an extent
\* of 4 on every axis (4 cells per axis of edge 1)
InitInputs == { [points |-> << <<5, 4, 3>>, <<5, 4, 3>> >>, min_cell_size |-> 1],
                [points |-> << <<0, 0, 0>>, <<3, 3, 3>> >>, min_cell_size |-> 2],
                [points |-> << <<0, 0, 0>>, <<4, 4, 4>> >>, min_cell_size |-> 1] }
\* the inputs the constructor is given in SpecGrid: one or two primitives
\* with coordinates in GridCoords, min_cell_size in GridMinCellSizes
GridCoords == { 0, 3, 5 }
GridPositions == { <<x, y, z>> : x \in GridCoords, y \in GridCoords, z \in GridCoords }
GridMinCellSizes == { 1, 2 }
\* positions the cell computations are compared at: inside, on the border
\* of and outside the cubes of SpecGrid
ProbeCoords == { -2, 0, 1, 2, 3, 4, 5, 7 }
ProbePositions == { <<x, y, z>> : x \in ProbeCoords, y \in ProbeCoords, z \in ProbeCoords }
\* the position insert_point / update_point are given.  In the cube of
\* <<0, 0, 0>> and <<4, 4, 4>> it lies outside on the first axis, on the
\* border on the second, and its box lies across a cell border on the third:
\* its cells are (3, 3, 2) and (3, 3, 3), the latter the cell of <<4, 4, 4>>
Positions == { <<5, 4, 3>> }
\* positions query / query_cell are given: the one above, and one that lies
\* in the cell (3, 3, 2) of that cube, next to the cell of <<4, 4, 4>>
QueryPositions == { <<5, 4, 3>>, <<5, 4, 2>> }
\* (position, scale, rotation) arguments of insert_point / update_point:
\* well-formed ones, and ones with one array of the wrong size
OpArgs == { <<p, Scale1, Identity>> : p \in Positions }
          \cup { <<BadPoint, Scale1, Identity>>,
                 << <<5, 4, 3>>, BadScale, Identity>>,
                 << <<5, 4, 3>>, Scale1, BadRotation>> }
\* the arguments the constructor is given in SpecConstruct: no position, one
\* position, or the positions of InitInputs; 0 .. MaxPoints scales and
\* rotations (fewer than, as many as and more than the positions); a
\* negative, a zero and a positive min_cell_size
ConstructPoints == { <<>>, << <<5, 4, 3>> >> } \cup { x.points : x \in InitInputs }
ConstructMinCellSizes == { -1, 0, 1 }
ConstructInputs ==
    { <<pts, [i \in 1 .. ns |-> Scale1], [i \in 1 .. nr |-> Identity], m>> :
        pts \in ConstructPoints, ns \in 0 .. MaxPoints, nr \in 0 .. MaxPoints,
        m \in ConstructMinCellSizes }
\* the inputs the constructor is given in SpecCells: those of Spec, an
\* extent of 5 (4 cells per axis of edge 1.25), and an extent of 3 with
\* min_cell_size 1 (2 cells per axis of edge 1.5)
CellInputs ==
    InitInputs \cup { [points |-> << <<0, 0, 0>>, <<5, 5, 5>> >>, min_cell_size |-> 1],
                      [points |-> << <<0, 0, 0>>, <<3, 3, 3>> >>, min_cell_size |-> 1] }
\* positions insert_point is given in SpecCells.  The coordinate -1 lies
\* below every cube that starts at 0.  On an axis of the cube of extent 4
\* the box of 2 lies across a cell border and 4 is the upper border; on an
\* axis of the cube of extent 5 the box of 2 lies inside one cell and the
\* box of 4 across a cell border; on an axis of the cubes of extent 3 the
\* box of 2 lies inside one cell and 4 lies above the cube
CellCoords == { -1, 2, 4 }
CellPositions == { <<x, y, z>> : x \in CellCoords, y \in CellCoords, z \in CellCoords }
\* handles update_point / remove_point are given: every row of the largest
\* array, and -1 (numpy's last row)
Handles == { -1 } \cup (0 .. (MaxPoints - 1))

Axes == 1 .. 3

(***************************************************************************)
(* Arithmetic helpers.                                                     *)
(***************************************************************************)
SetMax(S) == CHOOSE x \in S : \A y \in S : y <= x
SetMin(S) == CHOOSE x \in S : \A y \in S : x <= y

\* largest axis extent any constructor input of the model can have
MaxRange ==
    SetMax({ x - y : x \in GridCoords, y \in GridCoords }
           \cup UNION { { x.points[i][a] - x.points[j][a] :
                            i \in 1 .. Len(x.points), j \in 1 .. Len(x.points), a \in Axes } :
                          x \in InitInputs })
\* common denominator of the floats of the program: cell_size / 4 with
\* cell_size = range_val / 2^depth and 2^depth <= range_val <= 2^MaxRange,
\* and the halves of center and range_val / 2
Den == 8 * (2 ^ MaxRange)

\* np.clip(x, lo, hi)
clip(x, lo, hi) == IF x < lo THEN lo ELSE IF x > hi THEN hi ELSE x

\* the logarithm rounded down one too far at an exact power of two
RECURSIVE floor_log2_strict(_, _)
floor_log2_strict(r, m) == IF 2 * m < r THEN 1 + floor_log2_strict(r, 2 * m) ELSE 0

\* int(np.floor(np.log2(r / m))) for r > m > 0: the largest d with m * 2^d <= r
RECURSIVE floor_log2(_, _)
floor_log2(r, m) == IF 2 * m <= r THEN 1 + floor_log2(r, 2 * m) ELSE 0

\* results an astype(int) of a non-finite float (nan, inf: a division by a
\* zero cell_size) can have, depending on the build
UndefCast == { 0 - (2 ^ 30), 0, 2 ^ 30 }

\* np.floor(a / b).astype(int); u is the result of the cast when a / b is
\* not finite
floor_div(a, b, u) == IF b = 0 THEN u ELSE a \div b

(***************************************************************************)
(* Construction: bounding cube and resolution (Octree.__init__).           *)
(***************************************************************************)
\* self.points.min(axis=0), as value * Den
basic_min(pts) == [a \in Axes |-> Den * SetMin({ pts[i][a] : i \in 1 .. Len(pts) })]
\* self.points.max(axis=0), as value * Den
basic_max(pts) == [a \in Axes |-> Den * SetMax({ pts[i][a] : i \in 1 .. Len(pts) })]
\* center = (basic_min + basic_max) / 2.0
center(pts) ==
    LET lo == basic_min(pts)
        hi == basic_max(pts)
    IN  [a \in Axes |-> (lo[a] + hi[a]) \div 2]
\* range_val = (basic_max - basic_min).max()
range_val(pts) ==
    LET lo == basic_min(pts)
        hi == basic_max(pts)
    IN  SetMax({ hi[a] - lo[a] : a \in Axes })
\* the cube taken as the bounding box of the positions
new_global_min_box(pts) == basic_min(pts)

\* self.global_min = center - range_val / 2.0
new_global_min(pts) ==
    LET c == center(pts)
        r == range_val(pts)
    IN  [a \in Axes |-> c[a] - (r \div 2)]
\* self.global_max = center + range_val / 2.0
new_global_max(pts) ==
    LET c == center(pts)
        r == range_val(pts)
    IN  [a \in Axes |-> c[a] + (r \div 2)]
\* self.depth = int(floor(log2(range_val / min_cell_size))) if range_val > min_cell_size else 0
new_depth(pts, mcs) ==
    LET r == range_val(pts)
    IN  IF r > mcs * Den THEN floor_log2(r, mcs * Den) ELSE 0
\* self.n_cells = 2 ** self.depth if self.depth > 0 else 1
new_n_cells(pts, mcs) ==
    LET d == new_depth(pts, mcs)
    IN  IF d > 0 THEN 2 ^ d ELSE 1
\* self.cell_size = (self.global_max - self.global_min) / self.n_cells
new_cell_size(pts, mcs) ==
    LET lo == new_global_min(pts)
        hi == new_global_max(pts)
        n == new_n_cells(pts, mcs)
    IN  [a \in Axes |-> (hi[a] - lo[a]) \div n]
\* the extent taken as the whole cell_size[0]
new_default_extent_whole(pts, mcs) == new_cell_size(pts, mcs)[1]

\* self.default_extent = self.cell_size[0] / 4.0
new_default_extent(pts, mcs) == new_cell_size(pts, mcs)[1] \div 4

(***************************************************************************)
(* Cell computation and the two indices.  A state of the two dictionaries  *)
(* is a record [cells, point_cells]; cells maps a cell (a 3-tuple) to the  *)
(* list of handles, point_cells maps a handle to its list of cells.        *)
(***************************************************************************)
\* start_idx / end_idx of one axis: floor((p -+ default_extent - global_min) / cell_size),
\* clipped to [0, n_cells - 1]
start_idx(point, a, u) ==
    clip(floor_div(point[a] * Den - default_extent - global_min[a], cell_size[a], u),
         0, n_cells - 1)
\* end_idx clipped to n_cells in place of n_cells - 1
end_idx_clip_high(point, a, u) ==
    clip(floor_div(point[a] * Den + default_extent - global_min[a], cell_size[a], u),
         0, n_cells)

end_idx(point, a, u) ==
    clip(floor_div(point[a] * Den + default_extent - global_min[a], cell_size[a], u),
         0, n_cells - 1)

\* range(lo, hi + 1) as a list
range_list(lo, hi) == [i \in 1 .. (IF hi >= lo THEN hi - lo + 1 ELSE 0) |-> lo + i - 1]

\* the cells of the three nested loops, in loop order (ix outermost)
_get_cell_indices_for_point(point, u) ==
    LET xs == range_list(start_idx(point, 1, u), end_idx(point, 1, u))
        ys == range_list(start_idx(point, 2, u), end_idx(point, 2, u))
        zs == range_list(start_idx(point, 3, u), end_idx(point, 3, u))
        ny == Len(ys)
        nz == Len(zs)
    IN  [k \in 1 .. (Len(xs) * ny * nz) |->
            << xs[((k - 1) \div (ny * nz)) + 1],
               ys[(((k - 1) \div nz) % ny) + 1],
               zs[((k - 1) % nz) + 1] >>]

\* the casts of this grid that are undefined: all of them when cell_size is 0
CastChoices == IF cell_size[1] = 0 THEN UndefCast ELSE { 0 }

\* index in lst (Python's `in` on a list)
in_list(x, lst) == \E i \in 1 .. Len(lst) : lst[i] = x

\* removal that moves the last element into the place of x
list_remove_swap(lst, x) ==
    IF ~ in_list(x, lst) THEN lst
    ELSE LET i == CHOOSE k \in 1 .. Len(lst) :
                      lst[k] = x /\ \A j \in 1 .. (k - 1) : lst[j] # x
         IN  [k \in 1 .. (Len(lst) - 1) |-> IF k = i THEN lst[Len(lst)] ELSE lst[k]]

\* lst.pop() in place of lst.remove(x): drops the last element
list_remove_pop(lst, x) == SubSeq(lst, 1, Len(lst) - 1)

\* lst.remove(x): drops the first occurrence of x
RECURSIVE list_remove(_, _)
list_remove(lst, x) ==
    IF lst = <<>> THEN <<>>
    ELSE IF Head(lst) = x THEN Tail(lst)
    ELSE <<Head(lst)>> \o list_remove(Tail(lst), x)

\* number of times x occurs in lst
count_in(x, lst) == Cardinality({ i \in 1 .. Len(lst) : lst[i] = x })

\* lst.insert(0, x) in place of lst.append(x), k times
append_times_front(lst, x, k) == [i \in 1 .. k |-> x] \o lst

\* lst followed by k copies of x
append_times(lst, x, k) == lst \o [i \in 1 .. k |-> x]

\* the loop of _insert_point creating a cell as [index] and appending
\* index to it as well
insert_loop_created_with_index(cs, index, cell_indices) ==
    [cell \in DOMAIN cs \cup { cell_indices[k] : k \in 1 .. Len(cell_indices) } |->
        append_times(IF cell \in DOMAIN cs THEN cs[cell] ELSE <<index>>,
                     index, count_in(cell, cell_indices))]

\* the loop of _insert_point appending index only to the cells it creates
insert_loop_new_cells_only(cs, index, cell_indices) ==
    [cell \in DOMAIN cs \cup { cell_indices[k] : k \in 1 .. Len(cell_indices) } |->
        IF cell \in DOMAIN cs THEN cs[cell]
        ELSE append_times(<<>>, index, count_in(cell, cell_indices))]

\* the loop of _insert_point over cell_indices: a cell that is no key yet
\* starts as the empty list, and every occurrence of a cell in cell_indices
\* appends index to the list of that cell
insert_loop(cs, index, cell_indices) ==
    [cell \in DOMAIN cs \cup { cell_indices[k] : k \in 1 .. Len(cell_indices) } |->
        append_times(IF cell \in DOMAIN cs THEN cs[cell] ELSE <<>>,
                     index, count_in(cell, cell_indices))]

\* _insert_point(index, point, scale, rotation) on the dictionaries d
_insert_point(d, index, point, u) ==
    LET cell_indices == _get_cell_indices_for_point(point, u)
    IN  [ cells |-> insert_loop(d.cells, index, cell_indices),
          point_cells |-> [h \in DOMAIN d.point_cells \cup { index } |->
                              IF h = index THEN cell_indices ELSE d.point_cells[h]] ]

\* lst after k calls of lst.remove(x), each made only while x is in lst
RECURSIVE remove_times(_, _, _)
remove_times(lst, x, k) ==
    IF k = 0 \/ ~ in_list(x, lst) THEN lst ELSE remove_times(list_remove(lst, x), x, k - 1)

\* remove_loop stopping one cell short of the end of cell_list
remove_loop_short(cs, index, cell_list) ==
    [cell \in DOMAIN cs |->
        remove_times(cs[cell], index,
                     count_in(cell, SubSeq(cell_list, 1, Len(cell_list) - 1)))]

\* the loop of remove_point over cell_list = self.point_cells[index]: every
\* occurrence in cell_list of a cell that is a key of cells and holds index
\* removes one occurrence of index from the list of that cell
remove_loop(cs, index, cell_list) ==
    [cell \in DOMAIN cs |-> remove_times(cs[cell], index, count_in(cell, cell_list))]

\* remove_point deleting the reverse-index entry but leaving cells as it is
remove_from_keeps_cells(d, index) ==
    IF index \in DOMAIN d.point_cells
    THEN [ cells |-> d.cells,
           point_cells |-> [h \in DOMAIN d.point_cells \ { index } |-> d.point_cells[h]] ]
    ELSE d

\* remove_point counting a negative index from the end of the keys, as
\* numpy does for rows
remove_from_wraps(d, index) ==
    LET i == IF index < 0 THEN Cardinality(DOMAIN d.point_cells) + index ELSE index
    IN  IF i \in DOMAIN d.point_cells
        THEN [ cells |-> remove_loop(d.cells, i, d.point_cells[i]),
               point_cells |-> [h \in DOMAIN d.point_cells \ { i } |-> d.point_cells[h]] ]
        ELSE d

\* the body of remove_point(index) on the dictionaries d
remove_from(d, index) ==
    IF index \in DOMAIN d.point_cells
    THEN [ cells |-> remove_loop(d.cells, index, d.point_cells[index]),
           point_cells |-> [h \in DOMAIN d.point_cells \ { index } |-> d.point_cells[h]] ]
    ELSE d

\* the empty dictionary
EmptyDict == [x \in {} |-> <<>>]

\* the loop of __init__ inserting rows i .. N - 1 (handles i .. N - 1); the
\* dictionaries after each _insert_point are taken from a singleton set so
\* that they are computed once
RECURSIVE init_loop(_, _, _, _)
init_loop(d, pts, i, u) ==
    IF i >= Len(pts) THEN d
    ELSE CHOOSE r \in { init_loop(d1, pts, i + 1, u) :
                          d1 \in { _insert_point(d, i, pts[i + 1], u) } } : TRUE

(***************************************************************************)
(* query_cell (a pure function of the grid).                               *)
(***************************************************************************)
\* query_cell_axis without the np.clip of line 122
query_cell_axis_noclip(point, a, u) ==
    floor_div((point[a] * Den - global_min[a]) * n_cells,
              global_max[a] - global_min[a], u)

\* one axis of floor(((point - global_min) / (global_max - global_min)) * n_cells),
\* clipped to [0, n_cells - 1]
query_cell_axis(point, a, u) ==
    clip(floor_div((point[a] * Den - global_min[a]) * n_cells,
                   global_max[a] - global_min[a], u),
         0, n_cells - 1)

\* tuple(indices)
query_cell_of(point, u) ==
    << query_cell_axis(point, 1, u), query_cell_axis(point, 2, u), query_cell_axis(point, 3, u) >>

\* self.cells.get(cell_index, [])
query_of(point, u) ==
    IF query_cell_of(point, u) \in DOMAIN cells THEN cells[query_cell_of(point, u)] ELSE <<>>

(***************************************************************************)
(* numpy indexing and shapes.                                              *)
(***************************************************************************)
\* arr[index] exists: -len <= index < len
valid_index(arr, index) == (0 - Len(arr)) <= index /\ index < Len(arr)
\* the row arr[index] refers to (negative indices count from the end)
row_of(arr, index) == IF index >= 0 THEN index + 1 ELSE Len(arr) + index + 1
\* arr[index] = value
set_row(arr, index, value) == [arr EXCEPT ![row_of(arr, index)] = value]
\* x.reshape(1, 3) and self.points[index] = x succeed: x has shape (3,)
is_vec3(x) == Len(x) = 3
\* x.reshape(1, 3, 3) and self.rotations[index] = x succeed: x has shape (3, 3)
is_mat3(x) == Len(x) = 3 /\ \A i \in 1 .. Len(x) : Len(x[i]) = 3

\* the record of the last call: operation, arguments, what remove_point
\* read when the call began (whether the handle was a key of point_cells,
\* and the cell list point_cells[index] it then iterates over; FALSE and
\* <<>> for the other operations), the returned value (a tuple: <<>> for
\* None, <<h>> for a handle, a cell or a list of handles) and the exception
\* raised ("" when the call returned)
call(op, args, indexed, old_cells, result, raised) ==
    [op |-> op, args |-> args, indexed |-> indexed, old_cells |-> old_cells,
     result |-> result, raised |-> raised]

\* self.point_cells[index] as remove_point reads it, <<>> when index is no key
cells_read(index) == IF index \in DOMAIN point_cells THEN point_cells[index] ELSE <<>>

dicts == [cells |-> cells, point_cells |-> point_cells]

(***************************************************************************)
(* Initial state: the state after Octree(points, scales, rotations,        *)
(* min_cell_size) returns.                                                 *)
(***************************************************************************)
\* an attribute the constructor has not assigned when it raises
Unset == <<>>

\* the exception of line 34, "" when depth is computed.  The logarithm is
\* taken when range_val > min_cell_size: range_val / 0 is inf and
\* 0 / negative is -0.0 with logarithm -inf (int() raises OverflowError);
\* positive / negative is negative with logarithm nan (int() raises
\* ValueError)
depth_error(pts, mcs) ==
    LET r == range_val(pts)
    IN  IF ~ (r > mcs * Den) \/ mcs > 0 THEN ""
        ELSE IF mcs = 0 \/ r = 0 THEN "OverflowError"
        ELSE "ValueError"

\* number of passes of the loop of lines 50-51 that reach _insert_point:
\* pass i raises IndexError at self.scales[i] or self.rotations[i] when the
\* array has no row i
rows_inserted(pts, scs, rots) == SetMin({ Len(pts), Len(scs), Len(rots) })

\* the state Octree(pts, scs, rots, mcs) leaves: the constructed object when
\* last.raised = "", and otherwise the attributes assigned before the
\* exception (no object is returned)
__init__(pts, scs, rots, mcs) ==
    LET args == <<pts, scs, rots, mcs>>
        k == rows_inserted(pts, scs, rots)
    IN  /\ points = pts
        /\ scales = scs
        /\ rotations = rots
        /\ min_cell_size = mcs
        /\ IF Len(pts) = 0
           THEN \* self.points.min(axis=0) of an empty array raises
                /\ global_min = Unset /\ global_max = Unset
                /\ depth = Unset /\ n_cells = Unset
                /\ cell_size = Unset /\ default_extent = Unset
                /\ cells = EmptyDict /\ point_cells = EmptyDict
                /\ last = call("__init__", args, FALSE, <<>>, <<>>, "ValueError")
           ELSE /\ global_min = new_global_min(pts)
                /\ global_max = new_global_max(pts)
                /\ IF depth_error(pts, mcs) # ""
                   THEN /\ depth = Unset /\ n_cells = Unset
                        /\ cell_size = Unset /\ default_extent = Unset
                        /\ cells = EmptyDict /\ point_cells = EmptyDict
                        /\ last = call("__init__", args, FALSE, <<>>, <<>>,
                                       depth_error(pts, mcs))
                   ELSE /\ depth = new_depth(pts, mcs)
                        /\ n_cells = new_n_cells(pts, mcs)
                        /\ cell_size = new_cell_size(pts, mcs)
                        /\ default_extent = new_default_extent(pts, mcs)
                        /\ \E u \in CastChoices :
                              \E d \in { init_loop([cells |-> EmptyDict, point_cells |-> EmptyDict],
                                                   SubSeq(pts, 1, k), 0, u) } :
                                  /\ cells = d.cells
                                  /\ point_cells = d.point_cells
                        /\ last = call("__init__", args, FALSE, <<>>, <<>>,
                                       IF k < Len(pts) THEN "IndexError" ELSE "")

\* the state after Octree(x.points, scales, rotations, x.min_cell_size) with
\* one scale and one rotation for every position
Constructed(x) ==
    __init__(x.points, [i \in 1 .. Len(x.points) |-> Scale1],
             [i \in 1 .. Len(x.points) |-> Identity], x.min_cell_size)

Init == \E x \in InitInputs : Constructed(x)

InitGrid ==
    \E p \in GridPositions, q \in GridPositions, m \in GridMinCellSizes :
        \/ p = q /\ Constructed([points |-> <<p>>, min_cell_size |-> m])
        \/ Constructed([points |-> <<p, q>>, min_cell_size |-> m])

(***************************************************************************)
(* Operations.                                                             *)
(***************************************************************************)
\* the next handle taken as the number of indexed primitives
next_index_indexed == Cardinality(DOMAIN point_cells)

\* index = self.points.shape[0]
next_index == Len(points)

\* insert_point deriving the corners of the cube again from the positions
\* it then holds
insert_point_regrid(point, scale, rotation) ==
    /\ Len(points) < MaxPoints
    /\ is_vec3(point) /\ is_vec3(scale) /\ is_mat3(rotation)
    /\ points' = Append(points, point)
    /\ scales' = Append(scales, scale)
    /\ rotations' = Append(rotations, rotation)
    /\ global_min' = new_global_min(Append(points, point))
    /\ global_max' = new_global_max(Append(points, point))
    /\ UNCHANGED <<min_cell_size, depth, n_cells, cell_size, default_extent>>
    /\ \E u \in CastChoices :
          LET d == _insert_point(dicts, next_index, point, u)
          IN  /\ cells' = d.cells
              /\ point_cells' = d.point_cells
    /\ last' = call("insert_point", <<point, scale, rotation>>, FALSE, <<>>, <<next_index>>, "")

insert_point(point, scale, rotation) ==
    LET index == next_index
        args == <<point, scale, rotation>>
    IN  /\ Len(points) < MaxPoints
        /\ UNCHANGED grid
        /\ IF ~ is_vec3(point)
           THEN \* point.reshape(1, 3) raises
                /\ UNCHANGED <<store, index_maps>>
                /\ last' = call("insert_point", args, FALSE, <<>>, <<>>, "ValueError")
           ELSE /\ points' = Append(points, point)
                /\ IF ~ is_vec3(scale)
                   THEN \* scale.reshape(1, 3) raises
                        /\ UNCHANGED <<scales, rotations, index_maps>>
                        /\ last' = call("insert_point", args, FALSE, <<>>, <<>>, "ValueError")
                   ELSE /\ scales' = Append(scales, scale)
                        /\ IF ~ is_mat3(rotation)
                           THEN \* rotation.reshape(1, 3, 3) raises
                                /\ UNCHANGED <<rotations, index_maps>>
                                /\ last' = call("insert_point", args, FALSE, <<>>, <<>>, "ValueError")
                           ELSE /\ rotations' = Append(rotations, rotation)
                                /\ \E u \in CastChoices :
                                      LET d == _insert_point(dicts, index, point, u)
                                      IN  /\ cells' = d.cells
                                          /\ point_cells' = d.point_cells
                                /\ last' = call("insert_point", args, FALSE, <<>>, <<index>>, "")

remove_point(index) ==
    LET d == remove_from(dicts, index)
    IN  /\ cells' = d.cells
        /\ point_cells' = d.point_cells
        /\ UNCHANGED <<grid, store>>
        /\ last' = call("remove_point", <<index>>, index \in DOMAIN point_cells, cells_read(index),
                      <<>>, "")

\* the exception of arr[index] = value, "" when the assignment succeeds
assign_error(arr, index, well_formed) ==
    IF ~ valid_index(arr, index) THEN "IndexError"
    ELSE IF ~ well_formed THEN "ValueError"
    ELSE ""

update_point(index, new_point, new_scale, new_rotation) ==
    LET d1 == remove_from(dicts, index)
        args == <<index, new_point, new_scale, new_rotation>>
        e1 == assign_error(points, index, is_vec3(new_point))
        e2 == assign_error(scales, index, is_vec3(new_scale))
        e3 == assign_error(rotations, index, is_mat3(new_rotation))
        indexed == index \in DOMAIN point_cells
        old == cells_read(index)
    IN  /\ UNCHANGED grid
        /\ IF e1 # ""
           THEN /\ cells' = d1.cells
                /\ point_cells' = d1.point_cells
                /\ UNCHANGED store
                /\ last' = call("update_point", args, indexed, old, <<>>, e1)
           ELSE /\ points' = set_row(points, index, new_point)
                /\ IF e2 # ""
                   THEN /\ cells' = d1.cells
                        /\ point_cells' = d1.point_cells
                        /\ UNCHANGED <<scales, rotations>>
                        /\ last' = call("update_point", args, indexed, old, <<>>, e2)
                   ELSE /\ scales' = set_row(scales, index, new_scale)
                        /\ IF e3 # ""
                           THEN /\ cells' = d1.cells
                                /\ point_cells' = d1.point_cells
                                /\ UNCHANGED rotations
                                /\ last' = call("update_point", args, indexed, old, <<>>, e3)
                           ELSE /\ rotations' = set_row(rotations, index, new_rotation)
                                /\ \E u \in CastChoices :
                                      LET d2 == _insert_point(d1, index, new_point, u)
                                      IN  /\ cells' = d2.cells
                                          /\ point_cells' = d2.point_cells
                                /\ last' = call("update_point", args, indexed, old, <<>>, "")

query_cell(point) ==
    /\ \E u \in CastChoices :
          last' = call("query_cell", <<point>>, FALSE, <<>>, query_cell_of(point, u), "")
    /\ UNCHANGED <<grid, store, index_maps>>

\* query reading with self.cells.setdefault(cell_index, []), which enters
\* a cell that has no entry
query_setdefault(point) ==
    /\ \E u \in CastChoices :
          /\ last' = call("query", <<point>>, FALSE, <<>>, query_of(point, u), "")
          /\ cells' = [c \in DOMAIN cells \cup { query_cell_of(point, u) } |->
                          IF c \in DOMAIN cells THEN cells[c] ELSE <<>>]
    /\ UNCHANGED <<grid, store, point_cells>>

query(point) ==
    /\ \E u \in CastChoices :
          last' = call("query", <<point>>, FALSE, <<>>, query_of(point, u), "")
    /\ UNCHANGED <<grid, store, index_maps>>

Next ==
    \/ \E x \in OpArgs : insert_point(x[1], x[2], x[3])
    \/ \E h \in Handles, x \in OpArgs : update_point(h, x[1], x[2], x[3])
    \/ \E h \in Handles : remove_point(h)
    \/ \E p \in QueryPositions : query_cell(p)
    \/ \E p \in QueryPositions : query(p)

Spec == Init /\ [][Next]_vars

\* the queries on every grid of InitGrid
NextGrid ==
    \/ \E p \in QueryPositions : query_cell(p)
    \/ \E p \in QueryPositions : query(p)

SpecGrid == InitGrid /\ [][NextGrid]_vars

\* insertions at the positions of CellPositions, and removals
InitCells == \E x \in CellInputs : Constructed(x)

NextCells ==
    \/ \E p \in CellPositions : insert_point(p, Scale1, Identity)
    \/ \E h \in Handles : remove_point(h)

SpecCells == InitCells /\ [][NextCells]_vars

\* the constructor on well-formed and on invalid arguments
InitConstruct == \E x \in ConstructInputs : __init__(x[1], x[2], x[3], x[4])

\* the constructor returned an object (calls are made on it only then)
produced == last.op = "__init__" => last.raised = ""

NextConstruct ==
    \/ produced /\ \E p \in QueryPositions : query_cell(p)
    \/ produced /\ \E p \in QueryPositions : query(p)

SpecConstruct == InitConstruct /\ [][NextConstruct]_vars

(***************************************************************************)
(* Properties.                                                             *)
(***************************************************************************)
\* the elements of a list
elems(lst) == { lst[i] : i \in 1 .. Len(lst) }
\* every handle that is a key of point_cells or occurs in a list of cells
handles_of(cs, pc) == DOMAIN pc \cup UNION { elems(cs[c]) : c \in DOMAIN cs }
\* every cell that is a key of cells or occurs in a list of point_cells
cells_of(cs, pc) == DOMAIN cs \cup UNION { elems(pc[h]) : h \in DOMAIN pc }
\* the last call returned (raised nothing)
returned(op) == last.op = op /\ last.raised = ""

\* C1: reverse-index consistency.  In every reachable state, for every
\* handle h and cell c, h is in the list cells[c] if and only if h is a key
\* of point_cells and c is in the list point_cells[h].
C1_ReverseIndexConsistent ==
    \A h \in handles_of(cells, point_cells) \cup Handles :
      \A c \in cells_of(cells, point_cells) :
        (c \in DOMAIN cells /\ in_list(h, cells[c]))
          <=> (h \in DOMAIN point_cells /\ in_list(c, point_cells[h]))

\* C1 witness: update_point has just moved a handle, the reverse index has
\* a handle that lies in several cells, and some cell lists several handles
C1_Witness ==
    /\ returned("update_point")
    /\ last.indexed
    /\ \E h \in DOMAIN point_cells : Len(point_cells[h]) > 1
    /\ \E c \in DOMAIN cells : Len(cells[c]) > 1
    /\ \E h \in 0 .. (Len(points) - 1) : h \notin DOMAIN point_cells

\* query(p) lists handle h, whatever an undefined cast yields
found_by_query(h, p) == \A u \in CastChoices : in_list(h, query_of(p, u))
\* on every axis where p lies outside the cube, every cell recorded for h
\* is a boundary cell: coordinate 0 below the cube, n_cells - 1 above it
in_boundary_cells(h, p) ==
    \A a \in Axes : \A c \in elems(point_cells[h]) :
        /\ p[a] * Den < global_min[a] => c[a] = 0
        /\ p[a] * Den > global_max[a] => c[a] = n_cells - 1
\* p lies outside the cube on some axis
outside_cube(p) ==
    \E a \in Axes : p[a] * Den < global_min[a] \/ p[a] * Den > global_max[a]

\* the handle the last call returned is found by query at the position the
\* call was given, and is recorded in boundary cells only on the axes where
\* that position lies outside the cube
inserted_is_found ==
    /\ found_by_query(last.result[1], last.args[1])
    /\ in_boundary_cells(last.result[1], last.args[1])

\* C2: immediately after insert_point(p, scale, rotation) returns handle h,
\* for every position p given, inside or outside the cube, query(p)
\* contains h; on every axis where p lies below (above) the cube every cell
\* recorded for h has coordinate 0 (n_cells - 1); and global_min /
\* global_max are as before.
C2_InsertedIsFound ==
    [][(last'.op = "insert_point" /\ last'.raised = "")
          => /\ inserted_is_found'
             /\ global_min' = global_min
             /\ global_max' = global_max]_vars

\* p lies strictly inside the cube on axis a
interior_on(p, a) == global_min[a] < p[a] * Den /\ p[a] * Den < global_max[a]

\* C2 witness: in a grid of several cells per axis insert_point has
\* returned a handle for a position below the cube on one axis, above it on
\* another and strictly inside it on the third, and query finds the handle
C2_Witness ==
    /\ returned("insert_point")
    /\ n_cells > 1
    /\ \E a \in Axes : last.args[1][a] * Den < global_min[a]
    /\ \E a \in Axes : last.args[1][a] * Den > global_max[a]
    /\ \E a \in Axes : interior_on(last.args[1], a)
    /\ found_by_query(last.result[1], last.args[1])

\* C3: for every position p and every constructed grid, the cell
\* query_cell(p) is one of the cells _get_cell_indices_for_point(p).
C3_QueryCellInCellSet ==
    \A p \in ProbePositions : \A u1 \in CastChoices : \A u2 \in CastChoices :
        in_list(query_cell_of(p, u1), _get_cell_indices_for_point(p, u2))

\* C3 witness: query_cell has answered for a position whose box lies in
\* several cells of a grid with several cells per axis
C3_Witness ==
    /\ returned("query_cell")
    /\ n_cells > 1
    /\ Len(_get_cell_indices_for_point(last.args[1], 0)) > 1
    /\ in_list(last.result, _get_cell_indices_for_point(last.args[1], 0))

\* lst without the occurrences of x, the other elements in their order
filter_out(lst, x) == SelectSeq(lst, LAMBDA y : y # x)

\* C4: handles are never reused.  Construction assigns the handles
\* 0 .. N-1; every handle that is indexed is below the number of stored
\* positions; the stored arrays never shrink (remove_point leaves them as
\* they are); and every insert_point that returns, returns the number of
\* stored positions it found, which is no key of point_cells, and stores
\* one more position: the handles returned grow strictly.
C4_HandlesNeverReused ==
    [][/\ last.op = "__init__" => DOMAIN point_cells = 0 .. (Len(points) - 1)
       /\ \A h \in DOMAIN point_cells : h < Len(points)
       /\ Len(points') >= Len(points)
       /\ Len(scales') >= Len(scales)
       /\ Len(rotations') >= Len(rotations)
       /\ last'.op = "remove_point" => UNCHANGED <<points, scales, rotations>>
       /\ (last'.op = "insert_point" /\ last'.raised = "")
          => /\ last'.result = <<Len(points)>>
             /\ Len(points') = Len(points) + 1
             /\ Len(points) \notin DOMAIN point_cells
             /\ Len(points) \in DOMAIN point_cells']_vars

\* C4 witness: insert_point has returned a handle while the handle of a
\* removed primitive, a smaller one, is free
C4_Witness ==
    /\ returned("insert_point")
    /\ last.result = <<Len(points) - 1>>
    /\ \E h \in 0 .. (Len(points) - 2) : h \notin DOMAIN point_cells

\* C5: removal is exact.  After remove_point(h) on an indexed handle h, h
\* is no key of point_cells, occurs in no list of cells and is returned by
\* no query; every other handle keeps its point_cells entry, and every
\* list of cells is the list before the call without h.
C5_RemovalExact ==
    [][\A h \in Handles :
          (last'.op = "remove_point" /\ last'.args = <<h>> /\ h \in DOMAIN point_cells)
          => /\ last'.raised = ""
             /\ DOMAIN point_cells' = DOMAIN point_cells \ { h }
             /\ \A c \in DOMAIN cells' : ~ in_list(h, cells'[c])
             /\ \A p \in Positions \cup QueryPositions : ~ (\E u \in CastChoices : in_list(h, query_of(p, u)))'
             /\ \A g \in DOMAIN point_cells' : point_cells'[g] = point_cells[g]
             /\ DOMAIN cells' = DOMAIN cells
             /\ \A c \in DOMAIN cells : cells'[c] = filter_out(cells[c], h)]_vars

\* C5 witness: remove_point has removed an indexed handle of several cells
\* and left a cell that lists two other handles
C5_Witness ==
    /\ returned("remove_point")
    /\ last.indexed
    /\ Len(last.old_cells) > 1
    /\ \E c \in elems(last.old_cells) : Len(cells[c]) > 1

\* update_point(h, ...) has returned for a handle h that was indexed
updated(h) ==
    /\ last.op = "update_point" /\ last.raised = ""
    /\ last.args[1] = h /\ last.indexed

\* C6 as claimed: update_point(h, p, s, r) on an indexed handle h with the
\* position, scale and rotation stored for h (the position h is indexed
\* with: the cells computed for it are the cells recorded for h) leaves
\* cells and point_cells as they were.
C6_UpdateSameLeavesIndices ==
    [][\A h \in Handles :
          (updated(h)' /\ h \in DOMAIN point_cells
             /\ last'.args[2] = points[row_of(points, h)]
             /\ last'.args[3] = scales[row_of(scales, h)]
             /\ last'.args[4] = rotations[row_of(rotations, h)]
             /\ \A u \in CastChoices :
                   _get_cell_indices_for_point(last'.args[2], u) = point_cells[h])
          => (cells' = cells /\ point_cells' = point_cells)]_vars

\* C6 as amended: update_point(h, p, s, r) on an indexed handle h with the
\* position h was last indexed with (the cells computed for p are the cells
\* recorded for h) leaves point_cells as it was, leaves the keys of cells
\* and the handles of every cell as they were, and moves h to the end of
\* the list of every cell it occupies, the other handles keeping their order.
C6_UpdateSameKeepsMembership ==
    [][\A h \in Handles :
          (updated(h)' /\ h \in DOMAIN point_cells
             /\ \A u \in CastChoices :
                   _get_cell_indices_for_point(last'.args[2], u) = point_cells[h])
          => /\ point_cells' = point_cells
             /\ DOMAIN cells' = DOMAIN cells
             /\ \A c \in DOMAIN cells :
                   /\ elems(cells'[c]) = elems(cells[c])
                   /\ cells'[c] = IF in_list(c, point_cells[h])
                                  THEN Append(filter_out(cells[c], h), h)
                                  ELSE cells[c]]_vars

\* C6 witness: update_point has returned for an indexed handle whose cells
\* are the ones it had before, in a cell it shares with another handle
C6_Witness ==
    \E h \in DOMAIN point_cells :
        /\ updated(h)
        /\ last.old_cells = point_cells[h]
        /\ \E c \in elems(point_cells[h]) : Len(cells[c]) > 1

\* C7: after update_point(h, p_new, s, r) returns for an indexed handle h,
\* point_cells[h] is the cell list computed for p_new, h is in the lists of
\* exactly those cells, the stored arrays have the lengths they had, and
\* every other handle has the point_cells entry and the cell memberships
\* it had, in the order it had them.
C7_UpdateRecomputes ==
    [][\A h \in Handles :
          (updated(h)' /\ h \in DOMAIN point_cells)
          => /\ \A u \in CastChoices :
                   point_cells'[h] = _get_cell_indices_for_point(last'.args[2], u)
             /\ \A c \in DOMAIN cells' :
                   in_list(h, cells'[c]) <=> in_list(c, point_cells'[h])
             /\ elems(point_cells'[h]) \subseteq DOMAIN cells'
             /\ Len(points') = Len(points)
             /\ Len(scales') = Len(scales)
             /\ Len(rotations') = Len(rotations)
             /\ DOMAIN point_cells' = DOMAIN point_cells
             /\ \A g \in DOMAIN point_cells \ { h } : point_cells'[g] = point_cells[g]
             /\ DOMAIN cells \subseteq DOMAIN cells'
             /\ \A c \in DOMAIN cells' :
                   filter_out(cells'[c], h)
                     = IF c \in DOMAIN cells THEN filter_out(cells[c], h) ELSE <<>>]_vars

\* C7 witness: update_point has returned for an indexed handle that left a
\* cell of its old position and entered a cell that lists another handle
C7_Witness ==
    \E h \in DOMAIN point_cells :
        /\ updated(h)
        /\ \E c \in elems(last.old_cells) : ~ in_list(c, point_cells[h])
        /\ \E c \in elems(point_cells[h]) :
              /\ ~ in_list(c, last.old_cells)
              /\ Len(cells[c]) > 1

\* C8: remove_point(h) on a handle h that is no key of point_cells returns
\* without an exception and leaves cells, point_cells and the stored
\* arrays as they were; and after any remove_point(h), a second
\* remove_point(h) changes nothing.
C8_RemoveUnknownIsNoOp ==
    [][\A h \in Handles :
          (last'.op = "remove_point" /\ last'.args = <<h>>)
          => /\ last'.raised = ""
             /\ h \notin DOMAIN point_cells
                => UNCHANGED <<cells, point_cells, points, scales, rotations>>
             /\ remove_from([cells |-> cells', point_cells |-> point_cells'], h)
                  = [cells |-> cells', point_cells |-> point_cells']]_vars

\* C8 witness: remove_point has returned for a handle that was removed
\* before, while other handles are indexed
C8_Witness ==
    /\ returned("remove_point")
    /\ ~ last.indexed
    /\ last.args[1] >= 0 /\ last.args[1] < Len(rotations)
    /\ DOMAIN point_cells # {}

\* C9 as claimed: when insert_point or update_point fails on a malformed
\* position, scale or rotation, cells, point_cells and the three stored
\* arrays are as before the call, and the arrays have equal lengths.
C9_FailureBeforeMutation ==
    [][(last'.op \in { "insert_point", "update_point" } /\ last'.raised = "ValueError")
          => /\ UNCHANGED <<cells, point_cells, points, scales, rotations>>
             /\ Len(points') = Len(scales')
             /\ Len(scales') = Len(rotations')]_vars

\* C10 as claimed: update_point(h, ...) on a handle h that is no key of
\* point_cells raises an exception and leaves cells, point_cells and the
\* stored arrays as they were (stated for well-formed position, scale and
\* rotation, so that the only fault of the call is the handle).
C10_UpdateUnknownRejected ==
    [][(last'.op = "update_point" /\ ~ last'.indexed
          /\ is_vec3(last'.args[2]) /\ is_vec3(last'.args[3]) /\ is_mat3(last'.args[4]))
          => /\ last'.raised # ""
             /\ UNCHANGED <<cells, point_cells, points, scales, rotations>>]_vars

\* the arguments of a constructor call are invalid: no primitive, scales or
\* rotations of another length than the positions, or min_cell_size <= 0
invalid_input(args) ==
    \/ Len(args[1]) = 0
    \/ Len(args[2]) # Len(args[1])
    \/ Len(args[3]) # Len(args[1])
    \/ args[4] <= 0

\* C11 as claimed: a constructor call with an empty primitive set, with
\* positions, scales and rotations of unequal lengths, or with
\* min_cell_size <= 0 raises an error, and cells and point_cells have no
\* entry when it does.
C11_ConstructionRejectsInvalid ==
    (last.op = "__init__" /\ invalid_input(last.args))
        => /\ last.raised # ""
           /\ cells = EmptyDict
           /\ point_cells = EmptyDict

\* C12 as claimed: on every grid constructed from a non-empty position set
\* and a positive min_cell_size, cell_size >= min_cell_size on every axis,
\* also when range_val is below min_cell_size and depth is clamped to 0.
C12_CellSizeAtLeastMin ==
    (Len(points) > 0 /\ min_cell_size > 0)
        => \A a \in Axes : cell_size[a] >= min_cell_size * Den

\* C13: on every constructed grid (points holds the initial positions: the
\* queries leave it alone), with r the largest axis extent of the initial
\* positions: when r > min_cell_size, n_cells = 2^depth, depth is the
\* largest non-negative integer with r / 2^depth >= min_cell_size, and
\* min_cell_size <= cell_size < 2 * min_cell_size; when r <= min_cell_size,
\* depth = 0 and n_cells = 1.
C13_ResolutionMaximal ==
    LET r == range_val(points)
        m == min_cell_size * Den
    IN  /\ r > m => /\ depth >= 0
                    /\ n_cells = 2 ^ depth
                    /\ m * (2 ^ depth) <= r
                    /\ r < m * (2 ^ (depth + 1))
                    /\ \A a \in Axes : m <= cell_size[a] /\ cell_size[a] < 2 * m
        /\ r <= m => depth = 0 /\ n_cells = 1

\* C13 witness: a grid of 4 cells per axis whose cell_size lies strictly
\* between min_cell_size and 2 * min_cell_size has answered a query
C13_Witness ==
    /\ returned("query")
    /\ range_val(points) > min_cell_size * Den
    /\ depth = 2 /\ n_cells = 4
    /\ cell_size[1] > min_cell_size * Den

\* positions queried on the one-cell grids: below, inside and above the
\* cube on each axis
CornerCoords == { -2, 3, 7 }
CornerPositions == { <<x, y, z>> : x \in CornerCoords, y \in CornerCoords, z \in CornerCoords }

\* C14: on a grid of one cell per axis (also one of edge 0, whatever the
\* undefined casts yield) every indexed handle is recorded in exactly the
\* cell (0,0,0), no other cell has an entry, query at every position tried
\* returns each indexed handle once and nothing else, the query just
\* answered returned that, and right after construction with N primitives
\* query returns 0 .. N-1 in ascending order.
C14_SingleCellGrid ==
    n_cells = 1
      => /\ \A h \in DOMAIN point_cells : point_cells[h] = << <<0, 0, 0>> >>
         /\ DOMAIN cells \subseteq { <<0, 0, 0>> }
         /\ \A p \in CornerPositions \cup Positions : \A u \in CastChoices :
               /\ elems(query_of(p, u)) = DOMAIN point_cells
               /\ Len(query_of(p, u)) = Cardinality(DOMAIN point_cells)
               /\ last.op = "__init__"
                    => query_of(p, u) = [i \in 1 .. Len(points) |-> i - 1]
         /\ returned("query")
              => /\ elems(last.result) = DOMAIN point_cells
                 /\ Len(last.result) = Cardinality(DOMAIN point_cells)

\* C14 witness: a one-cell grid of positive edge, in which a handle was
\* removed and another inserted, has answered a query with two handles
C14_Witness ==
    /\ returned("query")
    /\ n_cells = 1 /\ cell_size[1] > 0
    /\ Len(last.result) = 2
    /\ Len(points) = 3
    /\ \E h \in 0 .. 1 : h \notin DOMAIN point_cells

\* C15: grid immutability.  The state after construction holds the values
\* the constructor computes from the initial positions, and no call of
\* insert_point, update_point, remove_point, query_cell or query changes
\* global_min, global_max, depth, n_cells, cell_size or default_extent,
\* whether it returns or raises and wherever the position given lies.
C15_GridImmutable ==
    [][/\ last.op = "__init__"
          => /\ global_min = new_global_min(points)
             /\ global_max = new_global_max(points)
             /\ depth = new_depth(points, min_cell_size)
             /\ n_cells = new_n_cells(points, min_cell_size)
             /\ cell_size = new_cell_size(points, min_cell_size)
             /\ default_extent = new_default_extent(points, min_cell_size)
       /\ UNCHANGED <<global_min, global_max, depth, n_cells, cell_size,
                      default_extent>>]_vars

\* C15 witness: in a grid of several cells per axis, a third position
\* outside the cube is stored and update_point has just moved a handle to a
\* position outside the cube
C15_Witness ==
    /\ returned("update_point")
    /\ n_cells > 1
    /\ Len(points) = 3
    /\ outside_cube(points[3])
    /\ outside_cube(last.args[2])
    /\ last.args[1] # 2

\* C16: cubic enclosing region.  On every constructed grid (points holds the
\* initial positions) global_max - global_min is range_val, the largest
\* axis extent of the initial positions, on all three axes, and every
\* initial position lies between global_min and global_max on every axis.
C16_CubicRegion ==
    \A a \in Axes :
        /\ global_max[a] - global_min[a] = range_val(points)
        /\ \A i \in 1 .. Len(points) :
              /\ global_min[a] <= points[i][a] * Den
              /\ points[i][a] * Den <= global_max[a]

\* C16 witness: a cube of edge 5 around two positions that differ by 5 on
\* one axis, by 3 on another and agree on the third has answered query_cell
C16_Witness ==
    /\ returned("query_cell")
    /\ Len(points) = 2
    /\ { basic_max(points)[a] - basic_min(points)[a] : a \in Axes } = { 0, 3 * Den, 5 * Den }
    /\ global_max[1] - global_min[1] = 5 * Den

\* C17: query(p) returns, for the cell c that query_cell computes for p,
\* the list cells[c] as it is, or the empty list when c is no key of cells;
\* every handle returned is recorded in c, no handle recorded only in other
\* cells is returned; and query and query_cell leave cells, point_cells and
\* the stored arrays as they were (a cell without entry gets none).
C17_QueryReadsOneCell ==
    [][/\ \A p \in QueryPositions :
            (last'.op = "query" /\ last'.args = <<p>>)
            => /\ last'.raised = ""
               /\ \E u \in CastChoices :
                     LET c == query_cell_of(p, u)
                     IN  /\ c \in DOMAIN cells => last'.result = cells[c]
                         /\ c \notin DOMAIN cells => last'.result = <<>>
                         /\ \A h \in elems(last'.result) :
                               h \in DOMAIN point_cells /\ in_list(c, point_cells[h])
                         /\ \A h \in DOMAIN point_cells :
                               ~ in_list(c, point_cells[h]) => ~ in_list(h, last'.result)
       /\ last'.op \in { "query", "query_cell" }
            => UNCHANGED <<cells, point_cells, points, scales, rotations>>]_vars

\* two cells are neighbours: they differ by 1 on one axis and agree on the
\* others
neighbours(c, e) ==
    \E a \in Axes : /\ c[a] - e[a] \in { -1, 1 }
                    /\ \A b \in Axes \ { a } : c[b] = e[b]

\* C17 witness: query has returned the empty list for a cell that has no
\* entry, while a neighbouring cell lists a handle
C17_Witness ==
    /\ returned("query")
    /\ n_cells > 1
    /\ last.result = <<>>
    /\ query_cell_of(last.args[1], 0) \notin DOMAIN cells
    /\ \E e \in DOMAIN cells :
          /\ neighbours(e, query_cell_of(last.args[1], 0))
          /\ Len(cells[e]) > 0

\* C18: in every reachable state the cell list recorded for every indexed
\* handle is non-empty, every coordinate of every recorded cell lies in
\* 0 .. n_cells - 1, the recorded cells are the full product of one set of
\* coordinates per axis, each of them one cell or two consecutive cells, and
\* so the handle is recorded in 1 to 8 cells.
C18_CellSetShape ==
    \A h \in DOMAIN point_cells :
        LET S == elems(point_cells[h])
            X(a) == { c[a] : c \in S }
        IN  /\ S # {}
            /\ \A c \in S : \A a \in Axes : 0 <= c[a] /\ c[a] <= n_cells - 1
            /\ S = { <<x, y, z>> : x \in X(1), y \in X(2), z \in X(3) }
            /\ \A a \in Axes : \A x \in X(a) : \A y \in X(a) : x - y <= 1
            /\ Cardinality(S) >= 1 /\ Cardinality(S) <= 8

\* C18 witness: insert_point has returned a handle recorded in 8 cells while
\* another handle is recorded in a single cell
C18_Witness ==
    /\ returned("insert_point")
    /\ last.result[1] \in DOMAIN point_cells
    /\ Cardinality(elems(point_cells[last.result[1]])) = 8
    /\ \E h \in DOMAIN point_cells : Cardinality(elems(point_cells[h])) = 1

\* no element occurs twice in lst
no_duplicates(lst) ==
    \A i \in 1 .. Len(lst) : \A j \in 1 .. Len(lst) : lst[i] = lst[j] => i = j

\* C19: in every state reached by insert_point, update_point (on indexed,
\* removed and never indexed handles) and remove_point, returning or
\* raising, no handle occurs twice in the list of a cell and no cell occurs
\* twice in the list point_cells records for a handle.
C19_NoDuplicates ==
    /\ \A c \in DOMAIN cells : no_duplicates(cells[c])
    /\ \A h \in DOMAIN point_cells : no_duplicates(point_cells[h])

\* C19 witness: update_point has indexed again a handle that was removed,
\* in two cells, one of which lists three handles
C19_Witness ==
    /\ returned("update_point")
    /\ ~ last.indexed
    /\ last.args[1] \in DOMAIN point_cells
    /\ last.args[1] >= 0
    /\ Len(point_cells[last.args[1]]) = 2
    /\ \E c \in DOMAIN cells : Len(cells[c]) = 3

\* every list of cs is strictly increasing
increasing(cs) ==
    \A c \in DOMAIN cs : \A i \in 1 .. (Len(cs[c]) - 1) : cs[c][i] < cs[c][i + 1]
\* the list of cell c in cs, empty when c is no key
list_of(cs, c) == IF c \in DOMAIN cs THEN cs[c] ELSE <<>>

\* C20: arrival order within a cell.  Construction leaves every cell list
\* strictly increasing in handle; every call other than update_point keeps
\* the lists strictly increasing when they are; insert_point returning h
\* appends h at the end of the list of every cell recorded for h and leaves
\* the other lists as they are; update_point(h, ...) returning leaves h last
\* in the list of every cell then recorded for h, and the handles other than
\* h in every list in the order they had.
C20_ArrivalOrder ==
    [][/\ last.op = "__init__" => increasing(cells)
       /\ (increasing(cells) /\ last'.op # "update_point") => increasing(cells')
       /\ \A h \in 0 .. MaxPoints :
            (last'.op = "insert_point" /\ last'.raised = "" /\ last'.result = <<h>>)
            => \A c \in DOMAIN cells' :
                  cells'[c] = IF in_list(c, point_cells'[h])
                              THEN Append(list_of(cells, c), h)
                              ELSE list_of(cells, c)
       /\ \A h \in Handles :
            (last'.op = "update_point" /\ last'.raised = "" /\ last'.args[1] = h)
            => \A c \in DOMAIN cells' :
                  cells'[c] = IF in_list(c, point_cells'[h])
                              THEN Append(filter_out(list_of(cells, c), h), h)
                              ELSE filter_out(list_of(cells, c), h)]_vars

\* C20 witness: update_point has returned for an indexed handle, the
\* smallest of a cell that lists three handles, and it is the last of the list
C20_Witness ==
    /\ returned("update_point")
    /\ last.indexed
    /\ last.args[1] >= 0
    /\ \E c \in DOMAIN cells :
          /\ Len(cells[c]) = 3
          /\ cells[c][3] = last.args[1]
          /\ cells[c][3] < cells[c][1]
          /\ cells[c][1] < cells[c][2]

====
